---- MODULE Spec2Model ----
(***************************************************************************)
(* A model of the option pricers: the Cox-Ross-Rubinstein lattice          *)
(* (binomial_option_pricing.py), the payoff expression sandbox and the     *)
(* Monte Carlo simulator (monte_carlo_option_pricing.py), and the web      *)
(* front end's use of the sandbox (web_option_calculator.py).              *)
(*                                                                         *)
(* Python floats are modelled in fixed point: the integer n stands for     *)
(* the number n / SCALE.  Python exceptions are records                    *)
(* [exc |-> class name, about |-> what the message names].                 *)
(***************************************************************************)
EXTENDS Integers, Sequences, FiniteSets, TLC

\* ------------------------------------------------------------------------
\* Fixed-point arithmetic standing for Python float arithmetic
\* ------------------------------------------------------------------------

\* one unit of the fixed-point representation of a float
SCALE == 1000

\* math.exp raises OverflowError above this argument (709.78 in a double)
ExpMaxArg == 709782

\* the largest step count offered to OptionSpec
MaxSteps == 3

NoError == [exc |-> "none", about |-> "none"]

Raise(exc, about) == [exc |-> exc, about |-> about]

Max(a, b) == IF a >= b THEN a ELSE b

Min(a, b) == IF a <= b THEN a ELSE b

\* a * b on floats: (a * b) / SCALE rounded down, the product split so that it
\* stays within the integers of the model checker
FMul(a, b) == (a \div SCALE) * b + ((a % SCALE) * b) \div SCALE

\* a / b on floats, for b # 0 (Python raises ZeroDivisionError at b = 0):
\* (a * SCALE) / b rounded down, split the same way
FDiv(a, b) ==
    IF b > 0 THEN (a \div b) * SCALE + ((a % b) * SCALE) \div b
    ELSE ((-a) \div (-b)) * SCALE + (((-a) % (-b)) * SCALE) \div (-b)

\* whether a number is a whole number (a Python int)
IsInteger(a) == a % SCALE = 0

RECURSIVE SqrtSearch(_, _, _)
SqrtSearch(n, lo, hi) ==
    IF hi - lo <= 1 THEN lo
    ELSE LET mid == (lo + hi) \div 2
         IN  IF mid * mid <= n THEN SqrtSearch(n, mid, hi)
             ELSE SqrtSearch(n, lo, mid)

\* math.sqrt(a), for a >= 0: the root of a * SCALE rounded down, searched
\* below the largest root the model checker's integers can square
FSqrt(a) == SqrtSearch(a * SCALE, 0, Min(a + SCALE + 1, 46341))

RECURSIVE FExp(_)
\* math.exp(x) below the overflow threshold: halve the argument until it is
\* small, then a fourth-order Taylor polynomial
FExp(x) ==
    IF x > SCALE \div 2 \/ x < -(SCALE \div 2)
    THEN LET h == FExp(x \div 2) IN FMul(h, h)
    ELSE LET t2 == FMul(x, x) \div 2
             t3 == FMul(t2, x) \div 3
             t4 == FMul(t3, x) \div 4
         IN  SCALE + x + t2 + t3 + t4

\* whether math.exp(x) raises OverflowError
ExpOverflows(x) == x > ExpMaxArg

RECURSIVE FPow(_, _)
\* base ** n for a float base and an int n >= 0
FPow(base, n) == IF n = 0 THEN SCALE ELSE FMul(FPow(base, n - 1), base)

\* ------------------------------------------------------------------------
\* State
\* ------------------------------------------------------------------------

VARIABLES
    bpc,      \* position of the lattice caller: start, constructed, terminal,
              \* induct, done, raised
    bspec,    \* the live OptionSpec instance, or NoSpec
    bparams,  \* the lattice parameters of the running price_option call
    values,   \* price_option's value vector (values[j + 1] is Python's values[j])
    step,     \* the level the backward induction processes next
    bresult,  \* what price_option returned, or NoResult
    berr,     \* the exception that ended the run, or NoError
    spc,      \* position of the sandbox caller: start, compiled, raised
    sargs,    \* the arguments given to compile_payoff
    sfn,      \* the payoff function compile_payoff returned, or NoPayoff
    serr,     \* the exception compile_payoff raised, or NoError
    sx,       \* the argument of the last call of the payoff function
    sret,     \* what the last call of the payoff function returned or raised
    scalls,   \* the number of calls of the payoff function
    mpc,      \* position of the Monte Carlo caller: idle, loop, returned, raised
    margs,    \* the arguments of the running monte_carlo_price invocation
    mrng,     \* the state of the invocation's random.Random, or NoRng
    mlocals,  \* the invocation's drift, diffusion and discount
    payoff_sum, \* the invocation's accumulator
    mi,       \* the number of paths the invocation has completed
    mlast,    \* what the invocation's last call of payoff returned or raised
    mdraws,   \* the number of variates the invocation has drawn
    mcalls,   \* the number of calls of payoff the invocation has made
    mresult,  \* what the invocation returned, or NoResult
    merr,     \* the exception that ended the invocation, or NoError
    observed, \* the seeded arguments whose invocations are recorded
    history,  \* the results of the returned invocations of the observed arguments
    ninv      \* the number of invocations started

lvars == <<bpc, bspec, bparams, values, step, bresult, berr>>

svars == <<spc, sargs, sfn, serr, sx, sret, scalls>>

mvars == <<mpc, margs, mrng, mlocals, payoff_sum, mi, mlast, mdraws, mcalls, mresult,
           merr, observed, history, ninv>>

vars == <<lvars, svars, mvars>>

NoResult == -1

\* ------------------------------------------------------------------------
\* binomial_option_pricing.py
\* ------------------------------------------------------------------------

OptionTypes == {"call", "put"}

ExerciseTypes == {"european", "american"}

NoSpec == [spot |-> 0, strike |-> 0, maturity |-> 0, rate |-> 0,
           volatility |-> 0, steps |-> 0, option_type |-> "none",
           exercise |-> "none", dividend_yield |-> 0]

NoParams == [dt |-> 0, up |-> 0, down |-> 0, prob |-> 0, discount |-> 0]

\* the arguments offered to OptionSpec(...): valid and invalid ones
SpotInputs == {100 * SCALE}

StrikeInputs == {90 * SCALE, 110 * SCALE}

MaturityInputs == {-SCALE, 0, SCALE, 2 * SCALE}

RateInputs == {50, 500}

VolatilityInputs == {-200, 0, 200, 400}

StepsInputs == {-SCALE, 0, 2 * SCALE + SCALE \div 2} \cup {n * SCALE : n \in 1..MaxSteps}

OptionTypeInputs == OptionTypes \cup {"straddle"}

ExerciseInputs == ExerciseTypes \cup {"bermudan"}

DividendInputs == {-10, 0, 30}

SpecInputs ==
    [spot : SpotInputs, strike : StrikeInputs, maturity : MaturityInputs,
     rate : RateInputs, volatility : VolatilityInputs, steps : StepsInputs,
     option_type : OptionTypeInputs, exercise : ExerciseInputs,
     dividend_yield : DividendInputs]

\* OptionSpec.__post_init__: the first failing check raises
PostInit(s) ==
    IF s.steps <= 0 THEN Raise("ValueError", "steps")
    ELSE IF s.maturity <= 0 THEN Raise("ValueError", "maturity")
    ELSE IF s.volatility < 0 THEN Raise("ValueError", "volatility")
    ELSE IF s.dividend_yield < 0 THEN Raise("ValueError", "dividend_yield")
    ELSE IF s.option_type \notin {"call", "put"} THEN Raise("ValueError", "option_type")
    ELSE IF s.exercise \notin {"european", "american"} THEN Raise("ValueError", "exercise")
    ELSE NoError

\* OptionSpec(...): the dataclass sets the fields and runs __post_init__
Construct(s) ==
    /\ bpc = "start"
    /\ LET e == PostInit(s)
       IN  IF e = NoError
           THEN /\ bspec' = s
                /\ bpc' = "constructed"
                /\ berr' = NoError
           ELSE /\ bspec' = NoSpec
                /\ bpc' = "raised"
                /\ berr' = e
    /\ UNCHANGED <<bparams, values, step, bresult, svars, mvars>>

\* a range check that lost its upper bound
ProbInRangeNoUpper(prob) == 0 <= prob

\* the risk-neutral probability check of _compute_parameters
ProbInRange(prob) == 0 <= prob /\ prob <= SCALE

\* _compute_parameters: [err, params]
ComputeParameters(s) ==
    LET dt == FDiv(s.maturity, s.steps)
        upArg == FMul(s.volatility, FSqrt(dt))
        up == FExp(upArg)
        down == FDiv(SCALE, up)
        growthArg == FMul(s.rate - s.dividend_yield, dt)
        growth == FExp(growthArg)
        prob == FDiv(growth - down, up - down)
        discount == FExp(FMul(-s.rate, dt))
    IN  IF ExpOverflows(upArg) \/ ExpOverflows(growthArg)
        THEN [err |-> Raise("OverflowError", "math range error"), params |-> NoParams]
        ELSE IF up - down = 0
        THEN [err |-> Raise("ZeroDivisionError", "float division by zero"),
              params |-> NoParams]
        ELSE IF ~ProbInRange(prob)
        THEN [err |-> Raise("ValueError", "probability"), params |-> NoParams]
        ELSE IF ExpOverflows(FMul(-s.rate, dt))
        THEN [err |-> Raise("OverflowError", "math range error"), params |-> NoParams]
        ELSE [err |-> NoError,
              params |-> [dt |-> dt, up |-> up, down |-> down, prob |-> prob,
                          discount |-> discount]]

\* price_option, line 73: the call of _compute_parameters
PriceOptionParameters ==
    /\ bpc = "constructed"
    /\ LET r == ComputeParameters(bspec)
       IN  IF r.err = NoError
           THEN /\ bparams' = r.params
                /\ bpc' = "terminal"
                /\ berr' = NoError
           ELSE /\ bparams' = NoParams
                /\ bpc' = "raised"
                /\ berr' = r.err
    /\ UNCHANGED <<bspec, values, step, bresult, svars, mvars>>

\* the asset price of node j (j up-moves) at level n
NodeSpot(s, p, n, j) == FMul(FMul(s.spot, FPow(p.up, j)), FPow(p.down, n - j))

\* the exercise value of an asset price
Intrinsic(s, price) ==
    IF s.option_type = "call" THEN Max(price - s.strike, 0)
    ELSE Max(s.strike - price, 0)

\* price_option, lines 76-84: the terminal payoffs
TerminalValues(s, p) ==
    LET n == s.steps \div SCALE
    IN  [i \in 1..(n + 1) |-> Intrinsic(s, NodeSpot(s, p, n, i - 1))]

\* price_option, lines 75-86: range(spec.steps + 1) raises TypeError for a
\* step count that is no int
PriceOptionTerminal ==
    /\ bpc = "terminal"
    /\ IF IsInteger(bspec.steps)
       THEN /\ values' = TerminalValues(bspec, bparams)
            /\ step' = (bspec.steps \div SCALE) - 1
            /\ bpc' = "induct"
            /\ berr' = NoError
       ELSE /\ values' = <<>>
            /\ step' = step
            /\ bpc' = "raised"
            /\ berr' = Raise("TypeError", "steps")
    /\ UNCHANGED <<bspec, bparams, bresult, svars, mvars>>

\* early exercise that takes the smaller of the two values
NodeValueMin(s, p, v, k, j) ==
    LET continuation ==
            FMul(p.discount, FMul(p.prob, v[j + 2]) + FMul(SCALE - p.prob, v[j + 1]))
    IN  IF s.exercise = "american"
        THEN Min(continuation, Intrinsic(s, NodeSpot(s, p, k, j)))
        ELSE continuation

\* a continuation value that weights the down-move with the up probability
NodeValueSwapped(s, p, v, k, j) ==
    LET continuation ==
            FMul(p.discount, FMul(p.prob, v[j + 1]) + FMul(SCALE - p.prob, v[j + 2]))
    IN  IF s.exercise = "american"
        THEN Max(continuation, Intrinsic(s, NodeSpot(s, p, k, j)))
        ELSE continuation

\* price_option, lines 91-101: the value of node j of level k from the values
\* v of level k + 1
NodeValue(s, p, v, k, j) ==
    LET continuation ==
            FMul(p.discount, FMul(p.prob, v[j + 2]) + FMul(SCALE - p.prob, v[j + 1]))
    IN  IF s.exercise = "american"
        THEN Max(continuation, Intrinsic(s, NodeSpot(s, p, k, j)))
        ELSE continuation

\* price_option, lines 89-102: one level of the backward induction
LevelValues(s, p, v, k) == [i \in 1..(k + 1) |-> NodeValue(s, p, v, k, i - 1)]

\* price_option, lines 88-102: one iteration of the loop over the levels
PriceOptionLevel ==
    /\ bpc = "induct"
    /\ step >= 0
    /\ values' = LevelValues(bspec, bparams, values, step)
    /\ step' = step - 1
    /\ UNCHANGED <<bpc, bspec, bparams, bresult, berr, svars, mvars>>

\* price_option, line 104
PriceOptionReturn ==
    /\ bpc = "induct"
    /\ step < 0
    /\ bresult' = values[1]
    /\ bpc' = "done"
    /\ UNCHANGED <<bspec, bparams, values, step, berr, svars, mvars>>


\* ------------------------------------------------------------------------
\* monte_carlo_option_pricing.py: the payoff expression sandbox
\* ------------------------------------------------------------------------

\* Python values: a number, None, a built-in function, or (as the outcome of
\* an evaluation) a raised exception
PyNum(v) == [t |-> "num", v |-> v, name |-> ""]

PyNone == [t |-> "none", v |-> 0, name |-> ""]

PyFn(f) == [t |-> "fn", v |-> 0, name |-> f]

PyExc(exc) == [t |-> "exc", v |-> 0, name |-> exc]

\* no exception raised by an evaluation
NoExc == [t |-> "exc", v |-> 0, name |-> ""]

\* the keys of _ALLOWED_NAMES
AllowedNames ==
    {"exp", "log", "sqrt", "sin", "cos", "tan", "fabs", "pi", "e", "erf", "erfc",
     "max", "min"}

\* math.pi and math.e
MathPi == 3141

MathE == 2718

\* _ALLOWED_NAMES[name]
AllowedValue(name) ==
    IF name = "pi" THEN PyNum(MathPi)
    ELSE IF name = "e" THEN PyNum(MathE)
    ELSE PyFn(name)

\* the nodes of Python's ast, each a record with its class name and fields
Load == [node |-> "Load"]

Constant(val) == [node |-> "Constant", value |-> val]

Name(id) == [node |-> "Name", id |-> id, ctx |-> Load]

BinOp(left, op, right) ==
    [node |-> "BinOp", left |-> left, op |-> [node |-> op], right |-> right]

UnaryOp(op, operand) == [node |-> "UnaryOp", op |-> [node |-> op], operand |-> operand]

Keyword(arg, val) == [node |-> "keyword", arg |-> arg, value |-> val]

Call(func, args, keywords) ==
    [node |-> "Call", func |-> func, args |-> args, keywords |-> keywords]

Attribute(val, attr) == [node |-> "Attribute", value |-> val, attr |-> attr, ctx |-> Load]

Subscript(val, slice) == [node |-> "Subscript", value |-> val, slice |-> slice, ctx |-> Load]

Compare(left, op, right) ==
    [node |-> "Compare", left |-> left, ops |-> <<[node |-> op]>>,
     comparators |-> <<right>>]

IfExp(test, body, orelse) ==
    [node |-> "IfExp", test |-> test, body |-> body, orelse |-> orelse]

Lambda(body) == [node |-> "Lambda", body |-> body]

ListComp(elt, target, iter) ==
    [node |-> "ListComp", elt |-> elt, target |-> target, iter |-> iter]

NamedExpr(target, val) == [node |-> "NamedExpr", target |-> target, value |-> val]

Expression(body) == [node |-> "Expression", body |-> body]

NoTree == [node |-> "none"]

\* a whitelist that also admits attribute access
AllowedNodesWithAttribute ==
    {"Expression", "BinOp", "UnaryOp", "Load", "Name", "Add", "Sub", "Mult", "Div",
     "Pow", "Mod", "USub", "UAdd", "Call", "Constant", "FloorDiv", "Attribute"}

\* _SafeExpressionEvaluator.allowed_nodes
AllowedNodes ==
    {"Expression", "BinOp", "UnaryOp", "Load", "Name", "Add", "Sub", "Mult", "Div",
     "Pow", "Mod", "USub", "UAdd", "Call", "Constant", "FloorDiv"}

\* ast.iter_fields restricted to the child nodes, in field order, of the node
\* classes generic_visit is reached for
ChildNodes(n) ==
    CASE n.node = "Expression" -> <<n.body>>
      [] n.node = "BinOp" -> <<n.left, n.op, n.right>>
      [] n.node = "UnaryOp" -> <<n.op, n.operand>>
      [] OTHER -> <<>>

\* _SafeExpressionEvaluator.visit_Name
VisitName(n, allowed_variables) ==
    IF n.id \notin allowed_variables /\ n.id \notin AllowedNames
    THEN Raise("ValueError", "Only payoff variables and math functions are allowed")
    ELSE NoError

\* a visit_Call that forgets the keywords' values
CallOperandsArgsOnly(n) == n.args

\* the values visit_Call visits: the arguments, then the keywords' values
CallOperands(n) == n.args \o [i \in 1..Len(n.keywords) |-> n.keywords[i].value]

RECURSIVE Visit(_, _), VisitAll(_, _, _)

\* _SafeExpressionEvaluator.visit_Call
VisitCall(n, allowed_variables) ==
    IF n.func.node # "Name"
    THEN Raise("ValueError", "Only simple calls to allowed math functions are permitted")
    ELSE IF n.func.id \notin AllowedNames
    THEN Raise("ValueError", "Only simple calls to allowed math functions are permitted")
    ELSE VisitAll(CallOperands(n), 1, allowed_variables)

\* _SafeExpressionEvaluator.visit, and NodeVisitor's dispatch to visit_Name,
\* visit_Call or generic_visit: the exception the visit raises, or NoError
Visit(n, allowed_variables) ==
    IF n.node \notin AllowedNodes
    THEN Raise("ValueError", "Disallowed expression component")
    ELSE CASE n.node = "Name" -> VisitName(n, allowed_variables)
           [] n.node = "Call" -> VisitCall(n, allowed_variables)
           [] OTHER -> VisitAll(ChildNodes(n), 1, allowed_variables)

\* the visits of a list of nodes, in order, as far as the first that raises
VisitAll(ns, i, allowed_variables) ==
    IF i > Len(ns) THEN NoError
    ELSE LET e == Visit(ns[i], allowed_variables)
         IN  IF e # NoError THEN e ELSE VisitAll(ns, i + 1, allowed_variables)

\* ast.parse(expression, mode="eval"): an expression's text parses to an
\* Expression node, any other text raises SyntaxError
Parse(src) ==
    IF src.syntax = "expression"
    THEN [err |-> NoError, tree |-> Expression(src.body)]
    ELSE [err |-> Raise("SyntaxError", "invalid syntax"), tree |-> NoTree]

EmptyContext == [n \in {} |-> 0]

\* what compile_payoff returns: the closure payoff over compiled,
\* payoff_variables and static_context
NoPayoff == [tree |-> NoTree, payoff_variables |-> {}, static_context |-> EmptyContext]

\* compile_payoff, lines 109-122: [err, payoff]
CompilePayoff(src, variables, context) ==
    LET payoff_variables == IF variables = {} THEN {"s"} ELSE variables
        static_context == context
        allowed_variables == payoff_variables \cup DOMAIN static_context
        parsed == Parse(src)
        visited == Visit(parsed.tree, allowed_variables)
    IN  IF parsed.err # NoError THEN [err |-> parsed.err, payoff |-> NoPayoff]
        ELSE IF visited # NoError THEN [err |-> visited, payoff |-> NoPayoff]
        ELSE [err |-> NoError,
              payoff |-> [tree |-> parsed.tree, payoff_variables |-> payoff_variables,
                          static_context |-> static_context]]

\* dict.update: the entries of upd replace those of base
DictUpdate(base, upd) == upd @@ base

\* a scope that binds the terminal price to the name s alone
PayoffScopeOnlyS(fn, s) ==
    DictUpdate(DictUpdate([n \in {"s"} |-> PyNum(s)],
                          [n \in DOMAIN fn.static_context |-> PyNum(fn.static_context[n])]),
               [n \in AllowedNames |-> AllowedValue(n)])

\* payoff, lines 117-119: the scope of one evaluation
PayoffScope(fn, s) ==
    DictUpdate(DictUpdate([n \in fn.payoff_variables |-> PyNum(s)],
                          [n \in DOMAIN fn.static_context |-> PyNum(fn.static_context[n])]),
               [n \in AllowedNames |-> AllowedValue(n)])

IsExc(v) == v.t = "exc"

\* the binary operators of the grammar on two Python values
BinOpApply(op, a, b) ==
    IF a.t # "num" \/ b.t # "num" THEN PyExc("TypeError")
    ELSE CASE op = "Add" -> PyNum(a.v + b.v)
           [] op = "Sub" -> PyNum(a.v - b.v)
           [] op = "Mult" -> PyNum(FMul(a.v, b.v))
           [] op = "Div" ->
                IF b.v = 0 THEN PyExc("ZeroDivisionError") ELSE PyNum(FDiv(a.v, b.v))
           [] op = "FloorDiv" ->
                IF b.v = 0 THEN PyExc("ZeroDivisionError")
                ELSE PyNum((a.v \div b.v) * SCALE)
           [] op = "Mod" ->
                IF b.v = 0 THEN PyExc("ZeroDivisionError")
                ELSE PyNum(a.v - b.v * (a.v \div b.v))
           [] op = "Pow" /\ IsInteger(b.v) /\ b.v >= 0 -> PyNum(FPow(a.v, b.v \div SCALE))
           [] op = "Pow" /\ IsInteger(b.v) /\ b.v < 0 ->
                IF a.v = 0 THEN PyExc("ZeroDivisionError")
                ELSE PyNum(FDiv(SCALE, FPow(a.v, (-b.v) \div SCALE)))

\* unary + and - on a Python value
UnaryOpApply(op, a) ==
    IF a.t # "num" THEN PyExc("TypeError")
    ELSE IF op = "USub" THEN PyNum(-a.v) ELSE PyNum(a.v)

RECURSIVE SeqMax(_, _), SeqMin(_, _)
SeqMax(vs, i) == IF i = Len(vs) THEN vs[i].v ELSE Max(vs[i].v, SeqMax(vs, i + 1))

SeqMin(vs, i) == IF i = Len(vs) THEN vs[i].v ELSE Min(vs[i].v, SeqMin(vs, i + 1))

\* the call f(*args, **kwargs) of a whitelisted value.  The numeric values
\* of log, sin, cos, tan, erf and erfc are not modelled: the expression texts
\* of the model call none of them, nor pass a keyword other than `default`.
CallApply(f, args, kwnames) ==
    IF f.t # "fn" THEN PyExc("TypeError")
    ELSE IF kwnames # <<>> THEN PyExc("TypeError")
    ELSE IF f.name \in {"max", "min"}
    THEN IF Len(args) < 2 \/ \E i \in DOMAIN args : args[i].t # "num"
         THEN PyExc("TypeError")
         ELSE IF f.name = "max" THEN PyNum(SeqMax(args, 1)) ELSE PyNum(SeqMin(args, 1))
    ELSE IF Len(args) # 1 THEN PyExc("TypeError")
    ELSE IF args[1].t # "num" THEN PyExc("TypeError")
    ELSE CASE f.name = "sqrt" ->
                IF args[1].v < 0 THEN PyExc("ValueError") ELSE PyNum(FSqrt(args[1].v))
           [] f.name = "fabs" -> PyNum(Max(args[1].v, -args[1].v))
           [] f.name = "exp" ->
                IF ExpOverflows(args[1].v) THEN PyExc("OverflowError")
                ELSE PyNum(FExp(args[1].v))

RECURSIVE Eval(_, _), EvalAll(_, _, _)

\* eval(compiled, {"__builtins__": {}}, scope): the value of a validated tree,
\* or the exception its evaluation raises
Eval(n, scope) ==
    CASE n.node = "Expression" -> Eval(n.body, scope)
      [] n.node = "Constant" -> n.value
      [] n.node = "Name" -> IF n.id \in DOMAIN scope THEN scope[n.id] ELSE PyExc("NameError")
      [] n.node = "BinOp" ->
            LET a == Eval(n.left, scope)
            IN  IF IsExc(a) THEN a
                ELSE LET b == Eval(n.right, scope)
                     IN  IF IsExc(b) THEN b ELSE BinOpApply(n.op.node, a, b)
      [] n.node = "UnaryOp" ->
            LET a == Eval(n.operand, scope)
            IN  IF IsExc(a) THEN a ELSE UnaryOpApply(n.op.node, a)
      [] n.node = "Call" ->
            LET f == Eval(n.func, scope)
            IN  IF IsExc(f) THEN f
                ELSE LET kwvalues == [i \in 1..Len(n.keywords) |-> n.keywords[i].value]
                         vs == EvalAll(n.args \o kwvalues, 1, scope)
                     IN  IF vs.exc # NoExc THEN vs.exc
                         ELSE CallApply(f, SubSeq(vs.vals, 1, Len(n.args)),
                                        [i \in 1..Len(n.keywords) |-> n.keywords[i].arg])

\* the values of a list of nodes, evaluated in order as far as the first that
\* raises
EvalAll(ns, i, scope) ==
    IF i > Len(ns) THEN [exc |-> NoExc, vals |-> <<>>]
    ELSE LET v == Eval(ns[i], scope)
         IN  IF IsExc(v) THEN [exc |-> v, vals |-> <<>>]
             ELSE LET rest == EvalAll(ns, i + 1, scope)
                  IN  [exc |-> rest.exc, vals |-> <<v>> \o rest.vals]

\* float(value)
PyFloat(v) == IF v.t \in {"num", "exc"} THEN v ELSE PyExc("TypeError")

\* payoff(s), lines 116-120: the float returned, or the exception raised
Payoff(fn, s) == PyFloat(Eval(fn.tree, PayoffScope(fn, s)))

\* the largest number of calls of one payoff function
MaxCalls == 2

\* the expression texts offered to compile_payoff, each the tree it parses to
LeafNames == {"s", "S_T", "K", "x", "pi", "e", "max"}

LeafNodes ==
    {Constant(PyNum(0)), Constant(PyNum(20 * SCALE)), Constant(PyNum(100 * SCALE)),
     Constant(PyNone)} \cup {Name(n) : n \in LeafNames}

SmallLeaves == {Constant(PyNum(100 * SCALE)), Constant(PyNone), Name("s"), Name("x")}

Callees ==
    {Name("max"), Name("sqrt"), Name("pi"), Name("s"), Name("open"),
     Attribute(Name("math"), "sqrt")}

FlatTrees ==
    {BinOp(l, op, r) : l \in LeafNodes, r \in LeafNodes,
                       op \in {"Add", "Sub", "Mult", "Div", "FloorDiv", "Mod", "BitAnd"}}
    \cup {BinOp(l, "Pow", Constant(PyNum(2 * SCALE))) : l \in LeafNodes}
    \cup {UnaryOp(op, l) : op \in {"USub", "UAdd", "Not"}, l \in LeafNodes}
    \cup {Call(f, <<a>>, <<>>) : f \in Callees, a \in LeafNodes}
    \cup {Call(f, <<a, b>>, <<>>) : f \in Callees, a \in LeafNodes, b \in SmallLeaves}
    \cup {Call(f, <<Name("s"), Constant(PyNum(0))>>, <<Keyword("default", k)>>) :
                f \in {Name("max"), Name("sqrt")}, k \in LeafNodes}

OtherForms ==
    {Attribute(Name("s"), "real"),
     Subscript(Name("s"), Constant(PyNum(0))),
     Compare(Name("s"), "Gt", Constant(PyNum(100 * SCALE))),
     IfExp(Name("s"), Name("s"), Constant(PyNum(0))),
     Lambda(Name("s")),
     ListComp(Name("s"), Name("s"), Name("K")),
     NamedExpr(Name("s"), Constant(PyNum(0)))}

SmallTrees ==
    {BinOp(l, op, r) : l \in SmallLeaves, r \in SmallLeaves, op \in {"Sub", "BitAnd"}}
    \cup {Call(Name("max"), <<a, b>>, <<>>) : a \in SmallLeaves, b \in SmallLeaves}
    \cup {Call(Name("open"), <<a>>, <<>>) : a \in SmallLeaves}
    \cup OtherForms

NestedTrees ==
    {BinOp(a, op, l) : a \in SmallTrees, l \in SmallLeaves, op \in {"Add", "Div"}}
    \cup {BinOp(l, op, a) : a \in SmallTrees, l \in SmallLeaves, op \in {"Add", "Div"}}
    \cup {UnaryOp("USub", a) : a \in SmallTrees}
    \cup {Call(Name("sqrt"), <<a>>, <<>>) : a \in SmallTrees}
    \cup {Call(Name("max"), <<a, Constant(PyNum(0))>>, <<>>) : a \in SmallTrees}
    \cup {Call(Name("max"), <<Constant(PyNum(0))>>, <<Keyword("default", a)>>) :
                a \in SmallTrees}

\* min(max(S_T - 100, 0), 20)
CappedCall ==
    Call(Name("min"),
         <<Call(Name("max"),
                <<BinOp(Name("S_T"), "Sub", Constant(PyNum(100 * SCALE))),
                  Constant(PyNum(0))>>, <<>>),
           Constant(PyNum(20 * SCALE))>>, <<>>)

NoSource == [syntax |-> "none", body |-> NoTree]

SandboxSources ==
    {[syntax |-> "expression", body |-> b] :
        b \in LeafNodes \cup FlatTrees \cup OtherForms \cup NestedTrees \cup {CappedCall}}
    \cup {[syntax |-> "statement", body |-> NoTree],
          [syntax |-> "malformed", body |-> NoTree]}

\* the variables and context arguments offered to compile_payoff: the
\* defaults, one alias, the web front end's aliases with the strike, the same
\* with a constant named like an alias, and names of the math whitelist
SandboxConfigs ==
    {[variables |-> {}, context |-> EmptyContext],
     [variables |-> {"S_T"}, context |-> EmptyContext],
     [variables |-> {"s", "ST", "S_T"}, context |-> [n \in {"K"} |-> 100 * SCALE]],
     [variables |-> {"s", "ST", "S_T"},
      context |-> [n \in {"K", "s"} |-> IF n = "K" THEN 100 * SCALE ELSE 7 * SCALE]],
     [variables |-> {"S_T", "e"},
      context |-> [n \in {"K", "pi"} |-> IF n = "K" THEN 100 * SCALE ELSE 3 * SCALE]]}

\* the terminal prices offered to a payoff function
PayoffArguments == {50 * SCALE, 150 * SCALE}

\* a call of compile_payoff
CallCompilePayoff(src, variables, context) ==
    /\ spc = "start"
    /\ LET r == CompilePayoff(src, variables, context)
       IN  /\ sargs' = [expression |-> src, variables |-> variables, context |-> context]
           /\ sfn' = r.payoff
           /\ serr' = r.err
           /\ spc' = IF r.err = NoError THEN "compiled" ELSE "raised"
    /\ UNCHANGED <<sx, sret, scalls, lvars, mvars>>

\* a call of the function compile_payoff returned
CallPayoff(x) ==
    /\ spc = "compiled"
    /\ scalls < MaxCalls
    /\ sx' = x
    /\ sret' = Payoff(sfn, x)
    /\ scalls' = scalls + 1
    /\ UNCHANGED <<spc, sargs, sfn, serr, lvars, mvars>>


\* ------------------------------------------------------------------------
\* monte_carlo_option_pricing.py: monte_carlo_price
\* ------------------------------------------------------------------------

\* the largest path count offered to monte_carlo_price
MaxSimulations == 3

\* the largest number of monte_carlo_price invocations of one run
MaxInvocations == 4

\* the number of states of the model's random generator
RngStates == 4

NoSeed == -1

NoRng == -1

\* the invocation has not called payoff
NoCall == [t |-> "nothing", v |-> 0, name |-> ""]

NoArgs ==
    [spot |-> 0, rate |-> 0, volatility |-> 0, maturity |-> 0, dividend_yield |-> 0,
     simulations |-> 0, seed |-> NoSeed]

NoLocals == [drift |-> 0, diffusion |-> 0, discount |-> 0]

\* the arguments offered to monte_carlo_price: valid and invalid ones; the
\* payoff argument is the function compile_payoff returned
McBaseArgs ==
    [spot |-> 100 * SCALE, rate |-> 50, volatility |-> 200, maturity |-> SCALE,
     dividend_yield |-> 0, simulations |-> 1, seed |-> 1]

McValidArgs ==
    {[McBaseArgs EXCEPT !.simulations = n, !.seed = sd] :
        n \in 1..MaxSimulations, sd \in {NoSeed, 1, 2}}
        \cup {[McBaseArgs EXCEPT !.volatility = 0],
              [McBaseArgs EXCEPT !.rate = 800 * SCALE],
              [McBaseArgs EXCEPT !.rate = -800 * SCALE]}

McInvalidArgs ==
    {[McBaseArgs EXCEPT !.simulations = n] : n \in {-1, 0}}
        \cup {[McBaseArgs EXCEPT !.maturity = m] : m \in {-SCALE, 0}}
        \cup {[McBaseArgs EXCEPT !.volatility = -200],
              [McBaseArgs EXCEPT !.maturity = 0, !.volatility = -200],
              [McBaseArgs EXCEPT !.simulations = 0, !.maturity = 0, !.volatility = -200],
              [McBaseArgs EXCEPT !.simulations = 0, !.rate = 800 * SCALE]}

McArgs == McValidArgs \cup McInvalidArgs

\* the arguments that carry a seed and pass the checks
McSeededArgs == {a \in McValidArgs : a.seed # NoSeed}

\* the expression texts of the payoffs given to monte_carlo_price:
\* max(s - 100, 0), sqrt(s - 100) and s
McSources ==
    {[syntax |-> "expression",
      body |-> Call(Name("max"),
                    <<BinOp(Name("s"), "Sub", Constant(PyNum(100 * SCALE))),
                      Constant(PyNum(0))>>, <<>>)],
     [syntax |-> "expression",
      body |-> Call(Name("sqrt"),
                    <<BinOp(Name("s"), "Sub", Constant(PyNum(100 * SCALE)))>>, <<>>)],
     [syntax |-> "expression", body |-> Name("s")]}

\* a generator that ignores the seed it is given
RandomIgnoringSeed(seed, entropy) == entropy

\* random.Random(seed): the generator's state, fixed by a seed and drawn from
\* the system's entropy without one
Random(seed, entropy) == IF seed = NoSeed THEN entropy ELSE seed % RngStates

\* the generator's state after one rng.gauss: every state is visited in turn
RngAdvance(state) == (state + 3) % RngStates

\* the variate rng.gauss(0.0, 1.0) returns from a state
RngGauss(state) ==
    CASE RngAdvance(state) = 0 -> -(SCALE + SCALE \div 2)
      [] RngAdvance(state) = 1 -> -(SCALE \div 2)
      [] RngAdvance(state) = 2 -> SCALE \div 2
      [] OTHER -> SCALE + SCALE \div 2

\* monte_carlo_price, lines 143-148
McValidate(a) ==
    IF a.simulations <= 0 THEN Raise("ValueError", "simulations")
    ELSE IF a.maturity <= 0 THEN Raise("ValueError", "maturity")
    ELSE IF a.volatility < 0 THEN Raise("ValueError", "volatility")
    ELSE NoError

\* monte_carlo_price, lines 151-153
McLocals(a) ==
    [drift |-> FMul(a.rate - a.dividend_yield
                        - FMul(SCALE \div 2, FMul(a.volatility, a.volatility)),
                    a.maturity),
     diffusion |-> FMul(a.volatility, FSqrt(a.maturity)),
     discount |-> FExp(FMul(-a.rate, a.maturity))]

\* monte_carlo_price, lines 143-155: the checks of the arguments, then the
\* generator, the derived quantities and the accumulator
McEnter(a, entropy) ==
    /\ mpc \in {"idle", "returned", "raised"}
    /\ spc = "compiled"
    /\ ninv < MaxInvocations
    /\ ninv' = ninv + 1
    /\ margs' = a
    /\ payoff_sum' = 0
    /\ mi' = 0
    /\ mlast' = NoCall
    /\ mdraws' = 0
    /\ mcalls' = 0
    /\ mresult' = NoResult
    /\ IF McValidate(a) # NoError
       THEN /\ merr' = McValidate(a)
            /\ mpc' = "raised"
            /\ mrng' = NoRng
            /\ mlocals' = NoLocals
       ELSE IF ExpOverflows(FMul(-a.rate, a.maturity))
       THEN /\ merr' = Raise("OverflowError", "discount")
            /\ mpc' = "raised"
            /\ mrng' = Random(a.seed, entropy)
            /\ mlocals' = NoLocals
       ELSE /\ merr' = NoError
            /\ mpc' = "loop"
            /\ mrng' = Random(a.seed, entropy)
            /\ mlocals' = McLocals(a)
    /\ UNCHANGED <<observed, history, lvars, svars>>

\* a loop body that skips a sample whose payoff faults
McPathSkipFault ==
    /\ mpc = "loop"
    /\ mi < margs.simulations
    /\ LET z == RngGauss(mrng)
           arg == mlocals.drift + FMul(mlocals.diffusion, z)
       IN  /\ mrng' = RngAdvance(mrng)
           /\ mdraws' = mdraws + 1
           /\ IF ExpOverflows(arg)
              THEN /\ merr' = Raise("OverflowError", "terminal price")
                   /\ mpc' = "raised"
                   /\ UNCHANGED <<payoff_sum, mi, mlast, mcalls>>
              ELSE LET s_t == FMul(margs.spot, FExp(arg))
                       p == Payoff(sfn, s_t)
                   IN  /\ mcalls' = mcalls + 1
                       /\ mlast' = p
                       /\ mi' = mi + 1
                       /\ payoff_sum' = IF IsExc(p) THEN payoff_sum ELSE payoff_sum + p.v
                       /\ UNCHANGED <<merr, mpc>>
    /\ UNCHANGED <<margs, mlocals, mresult, observed, history, ninv, lvars, svars>>

\* monte_carlo_price, lines 156-159: one iteration of the loop over the paths
McPath ==
    /\ mpc = "loop"
    /\ mi < margs.simulations
    /\ LET z == RngGauss(mrng)
           arg == mlocals.drift + FMul(mlocals.diffusion, z)
       IN  /\ mrng' = RngAdvance(mrng)
           /\ mdraws' = mdraws + 1
           /\ IF ExpOverflows(arg)
              THEN /\ merr' = Raise("OverflowError", "terminal price")
                   /\ mpc' = "raised"
                   /\ UNCHANGED <<payoff_sum, mi, mlast, mcalls>>
              ELSE LET s_t == FMul(margs.spot, FExp(arg))
                       p == Payoff(sfn, s_t)
                   IN  /\ mcalls' = mcalls + 1
                       /\ mlast' = p
                       /\ IF IsExc(p)
                          THEN /\ merr' = Raise(p.name, "payoff")
                               /\ mpc' = "raised"
                               /\ UNCHANGED <<payoff_sum, mi>>
                          ELSE /\ payoff_sum' = payoff_sum + p.v
                               /\ mi' = mi + 1
                               /\ UNCHANGED <<merr, mpc>>
    /\ UNCHANGED <<margs, mlocals, mresult, observed, history, ninv, lvars, svars>>

\* the record of the returned invocations of the observed arguments: which
\* invocation of the run it was, and what it returned
Recorded(h, a, result, n) ==
    IF a = observed THEN Append(h, [n |-> n, result |-> result]) ELSE h

\* monte_carlo_price, line 161
McReturn ==
    /\ mpc = "loop"
    /\ mi >= margs.simulations
    /\ LET result == FDiv(FMul(mlocals.discount, payoff_sum), margs.simulations * SCALE)
       IN  /\ mresult' = result
           /\ history' = Recorded(history, margs, result, ninv)
    /\ mpc' = "returned"
    /\ UNCHANGED <<margs, mrng, mlocals, payoff_sum, mi, mlast, mdraws, mcalls, merr, ninv,
                   observed, lvars, svars>>

InitMcRun ==
    /\ mpc = "idle"
    /\ margs = NoArgs
    /\ mrng = NoRng
    /\ mlocals = NoLocals
    /\ payoff_sum = 0
    /\ mi = 0
    /\ mlast = NoCall
    /\ mdraws = 0
    /\ mcalls = 0
    /\ mresult = NoResult
    /\ merr = NoError
    /\ history = <<>>
    /\ ninv = 0

InitMcVars == InitMcRun /\ observed = NoArgs

InitLatticeVars ==
    /\ bpc = "start"
    /\ bspec = NoSpec
    /\ bparams = NoParams
    /\ values = <<>>
    /\ step = 0
    /\ bresult = NoResult
    /\ berr = NoError

InitSandboxVars ==
    /\ spc = "start"
    /\ sargs = [expression |-> NoSource, variables |-> {}, context |-> EmptyContext]
    /\ sfn = NoPayoff
    /\ serr = NoError
    /\ sx = 0
    /\ sret = NoExc
    /\ scalls = 0

InitSandbox == InitLatticeVars /\ InitSandboxVars /\ InitMcVars

NextSandbox ==
    \/ /\ spc = "start"
       /\ \E src \in SandboxSources, c \in SandboxConfigs :
            CallCompilePayoff(src, c.variables, c.context)
    \/ \E x \in PayoffArguments : CallPayoff(x)

SpecSandbox == InitSandbox /\ [][NextSandbox]_vars

InitMc ==
    /\ InitLatticeVars
    /\ InitSandboxVars
    /\ InitMcRun
    /\ observed \in McSeededArgs

NextMc ==
    \/ /\ spc = "start"
       /\ \E src \in McSources : CallCompilePayoff(src, {}, EmptyContext)
    \/ /\ mpc \in {"idle", "returned", "raised"}
       /\ \E a \in McArgs, entropy \in 0..(RngStates - 1) : McEnter(a, entropy)
    \/ McPath
    \/ McReturn

SpecMc == InitMc /\ [][NextMc]_vars

InitLattice == InitLatticeVars /\ InitSandboxVars /\ InitMcVars

NextLattice ==
    \/ /\ bpc = "start"
       /\ \E s \in SpecInputs : Construct(s)
    \/ PriceOptionParameters
    \/ PriceOptionTerminal
    \/ PriceOptionLevel
    \/ PriceOptionReturn

SpecLattice == InitLattice /\ [][NextLattice]_vars

\* ------------------------------------------------------------------------
\* Properties of the lattice pricer
\* ------------------------------------------------------------------------

\* the six constraints on an OptionSpec
SixConstraints(s) ==
    /\ IsInteger(s.steps) /\ s.steps > 0
    /\ s.maturity > 0
    /\ s.volatility >= 0
    /\ s.dividend_yield >= 0
    /\ s.option_type \in OptionTypes
    /\ s.exercise \in ExerciseTypes

\* C1: every live OptionSpec instance, and so every OptionSpec price_option
\* is given, satisfies the six constraints, the step count being an integer
\* among them.
C1_LiveSpecSatisfiesAllSix == bspec # NoSpec => SixConstraints(bspec)

\* C4: price_option of a valid OptionSpec with volatility 0 does not end in
\* the division by zero of the probability formula.
C4_ZeroVolatilityHandled ==
    (bspec # NoSpec /\ bspec.volatility = 0 /\ bpc = "raised")
        => berr.exc # "ZeroDivisionError"

\* the lattice factors and the probability formula, written out from the
\* fields of the OptionSpec
RawDt(s) == FDiv(s.maturity, s.steps)

RawUp(s) == FExp(FMul(s.volatility, FSqrt(RawDt(s))))

RawDown(s) == FDiv(SCALE, RawUp(s))

RawGrowth(s) == FExp(FMul(s.rate - s.dividend_yield, RawDt(s)))

RawProbDefined(s) == RawUp(s) - RawDown(s) # 0

RawProb(s) == FDiv(RawGrowth(s) - RawDown(s), RawUp(s) - RawDown(s))

\* C5: price_option goes on to the lattice, and returns a price, only with the
\* probability (g - d)/(u - d) itself, unadjusted and within [0, 1]; with the
\* probability outside [0, 1] it has raised the probability error with no
\* node value computed and no price returned.
C5_ProbabilityGate ==
    /\ (bpc \in {"terminal", "induct", "done"} \/ bresult # NoResult)
            => /\ RawProbDefined(bspec)
               /\ bparams.prob = RawProb(bspec)
               /\ 0 <= bparams.prob /\ bparams.prob <= SCALE
    /\ (/\ bspec # NoSpec
        /\ bpc # "constructed"
        /\ RawProbDefined(bspec)
        /\ (RawProb(bspec) < 0 \/ RawProb(bspec) > SCALE))
            => /\ bpc = "raised"
               /\ berr = Raise("ValueError", "probability")
               /\ values = <<>>
               /\ bresult = NoResult

\* C5 witness: a run that raised the probability error, and
\* the probability of its OptionSpec is above 1
C5_Witness ==
    /\ bpc = "raised"
    /\ berr = Raise("ValueError", "probability")
    /\ RawProb(bspec) > SCALE

RECURSIVE ValuesAtLevel(_, _, _)
\* the value vector of level k of the lattice of s
ValuesAtLevel(s, p, k) ==
    IF k >= s.steps \div SCALE THEN TerminalValues(s, p)
    ELSE LevelValues(s, p, ValuesAtLevel(s, p, k + 1), k)

\* the same OptionSpec with European exercise
EuropeanTwin(s) == [s EXCEPT !.exercise = "european"]

\* C6: at every level of the backward induction and every node, the value of
\* the American lattice is at least the value of the European lattice of the
\* otherwise identical OptionSpec, and so is the price returned.
C6_AmericanAtLeastEuropean ==
    (bpc \in {"induct", "done"})
        => LET eu == ValuesAtLevel(EuropeanTwin(bspec), bparams, step + 1)
           IN  /\ DOMAIN values = DOMAIN eu
               /\ \A i \in DOMAIN values : values[i] >= eu[i]
               /\ bspec.exercise = "european" => values = eu
               /\ bpc = "done" => bresult >= eu[1]

\* C6 witness: an American price strictly above the European price
C6_Witness ==
    /\ bpc = "done"
    /\ bspec.exercise = "american"
    /\ bresult > ValuesAtLevel(EuropeanTwin(bspec), bparams, 0)[1]

\* the number of levels of the lattice of the live OptionSpec
Levels == bspec.steps \div SCALE

\* the value vector and the next level to process, while price_option is
\* between the terminal payoffs and its return: with levels Levels - 1 down
\* to step + 1 processed the vector has step + 2 entries, and at the return
\* every level is processed and one value remains, which is the price
InductionShape ==
    /\ bpc = "induct"
            => /\ step \in -1..(Levels - 1)
               /\ Len(values) = step + 2
    /\ bpc = "done"
            => /\ step = -1
               /\ Len(values) = 1
               /\ bresult = values[1]

\* the steps of price_option: the terminal vector has steps + 1 entries and
\* the induction starts at level steps - 1; a level step is processed from
\* the vector of level step + 1, leaves step + 1 entries, each the discounted
\* expectation of its two successors (maximised with the exercise value under
\* American exercise), and is followed by level step - 1; the return happens
\* after level 0 only
InductionStep ==
    /\ (bpc = "terminal" /\ bpc' = "induct")
            => /\ Len(values') = Levels + 1
               /\ step' = Levels - 1
    /\ (bpc = "induct" /\ bpc' = "induct" /\ values' # values)
            => /\ step >= 0
               /\ step' = step - 1
               /\ Len(values') = step + 1
               /\ \A j \in 0..step :
                    LET continuation ==
                            FMul(bparams.discount,
                                 FMul(bparams.prob, values[j + 2])
                                     + FMul(SCALE - bparams.prob, values[j + 1]))
                        spot == FMul(FMul(bspec.spot, FPow(bparams.up, j)),
                                     FPow(bparams.down, step - j))
                        exercise_value ==
                            IF bspec.option_type = "call" THEN Max(spot - bspec.strike, 0)
                            ELSE Max(bspec.strike - spot, 0)
                    IN  values'[j + 1] =
                            IF bspec.exercise = "american"
                            THEN Max(continuation, exercise_value)
                            ELSE continuation
    /\ (bpc = "induct" /\ step' # step) => step' = step - 1
    /\ (bpc = "induct" /\ bpc' = "done")
            => /\ step = -1
               /\ values' = values
               /\ bresult' = values[1]

\* C11: in price_option the terminal value vector has steps + 1 entries, the
\* backward induction processes the levels steps - 1 down to 0 in that order,
\* after level k the vector has exactly k + 1 entries, each
\* discount * (p * value[j+1] + (1 - p) * value[j]) of the previous vector
\* (maximised with the intrinsic value for American exercise), and after
\* exactly steps levels one value remains, which is returned as the price.
C11_BackwardInduction == []InductionShape /\ [][InductionStep]_vars

\* C11 witness: price_option returned the one remaining value of an American
\* lattice of MaxSteps levels, a price that early exercise and the weights of
\* the expectation both bear on
C11_Witness ==
    /\ bpc = "done"
    /\ bspec.exercise = "american"
    /\ Levels = MaxSteps
    /\ Len(values) = 1
    /\ bresult = values[1]
    /\ bresult > ValuesAtLevel(EuropeanTwin(bspec), bparams, 0)[1]

\* ------------------------------------------------------------------------
\* Properties of the expression sandbox
\* ------------------------------------------------------------------------

\* the nodes directly below a node of the syntax tree; a call's keywords
\* count as part of the call
SubNodes(n) ==
    CASE n.node = "Expression" -> <<n.body>>
      [] n.node = "BinOp" -> <<n.left, n.op, n.right>>
      [] n.node = "UnaryOp" -> <<n.op, n.operand>>
      [] n.node = "Call" ->
            <<n.func>> \o n.args \o [i \in 1..Len(n.keywords) |-> n.keywords[i].value]
      [] n.node = "Attribute" -> <<n.value>>
      [] n.node = "Subscript" -> <<n.value, n.slice>>
      [] n.node = "Compare" -> <<n.left>> \o n.ops \o n.comparators
      [] n.node = "IfExp" -> <<n.test, n.body, n.orelse>>
      [] n.node = "Lambda" -> <<n.body>>
      [] n.node = "ListComp" -> <<n.elt, n.target, n.iter>>
      [] n.node = "NamedExpr" -> <<n.target, n.value>>
      [] OTHER -> <<>>

RECURSIVE AllNodes(_)
\* every node of a syntax tree
AllNodes(n) ==
    {n} \cup UNION {AllNodes(SubNodes(n)[i]) : i \in DOMAIN SubNodes(n)}

\* the tree the text given to compile_payoff parses to
GivenTree == Expression(sargs.expression.body)

\* the names compile_payoff was given as declared variables and constants
GivenNames ==
    (IF sargs.variables = {} THEN {"s"} ELSE sargs.variables) \cup DOMAIN sargs.context

RefersToUnknownName ==
    \E n \in AllNodes(GivenTree) :
        n.node = "Name" /\ n.id \notin GivenNames \cup AllowedNames

CallsUnlistedCallee ==
    \E n \in AllNodes(GivenTree) :
        n.node = "Call" /\ ~(n.func.node = "Name" /\ n.func.id \in AllowedNames)

HasDisallowedConstruct ==
    \E n \in AllNodes(GivenTree) :
        n.node \notin
            {"Expression", "BinOp", "UnaryOp", "Load", "Name", "Add", "Sub", "Mult",
             "Div", "Pow", "Mod", "USub", "UAdd", "Call", "Constant", "FloorDiv"}

InClaimedGrammar(n) ==
    \/ n.node \in {"Expression", "BinOp", "UnaryOp", "Load"}
    \/ n.node \in {"Add", "Sub", "Mult", "Div", "Mod", "Pow", "USub", "UAdd"}
    \/ n.node = "Constant" /\ n.value.t = "num"
    \/ n.node = "Name" /\ n.id \in GivenNames \cup AllowedNames
    \/ n.node = "Call" /\ n.func.node = "Name"
                       /\ n.func.id \in AllowedNames \ {"pi", "e"}

\* C3 as claimed: every accepted expression lies within the claimed grammar.
C3_AcceptedWithinClaimedGrammar ==
    spc = "compiled" => \A n \in AllNodes(GivenTree) : InClaimedGrammar(n)

\* the grammar of the code: literals of any type, names, + - * / // % and
\* power, unary + and -, calls (with positional and keyword arguments) of a
\* whitelisted name
InAcceptedGrammar(n) ==
    \/ n.node \in {"Expression", "BinOp", "UnaryOp", "Load"}
    \/ n.node \in {"Add", "Sub", "Mult", "Div", "FloorDiv", "Mod", "Pow", "USub", "UAdd"}
    \/ n.node = "Constant"
    \/ n.node = "Name" /\ n.id \in GivenNames \cup AllowedNames
    \/ n.node = "Call" /\ n.func.node = "Name" /\ n.func.id \in AllowedNames

\* C3, amended: every accepted expression lies within the grammar of the
\* code, and every text outside it (a statement or unparsable text included)
\* is rejected by compile_payoff with no payoff function returned.
C3_AcceptedWithinGrammar ==
    /\ spc = "compiled"
        => /\ sargs.expression.syntax = "expression"
           /\ \A n \in AllNodes(GivenTree) : InAcceptedGrammar(n)
    /\ (/\ spc # "start"
        /\ \/ sargs.expression.syntax # "expression"
           \/ \E n \in AllNodes(GivenTree) : ~InAcceptedGrammar(n))
        => spc = "raised" /\ sfn = NoPayoff

\* C3 witness: an accepted expression that holds a call, a binary operator,
\* a name and a literal
C3_Witness ==
    /\ spc = "compiled"
    /\ \E n \in AllNodes(GivenTree) : n.node = "Call"
    /\ \E n \in AllNodes(GivenTree) : n.node = "BinOp"
    /\ \E n \in AllNodes(GivenTree) : n.node = "Name" /\ n.id \in sfn.payoff_variables
    /\ \E n \in AllNodes(GivenTree) : n.node = "Constant"

\* the scope as claimed: every declared variable is the argument, the other
\* names of the context are its constants
ClaimedScope(fn, x) ==
    [n \in fn.payoff_variables \cup DOMAIN fn.static_context \cup AllowedNames |->
        IF n \in fn.payoff_variables THEN PyNum(x)
        ELSE IF n \in DOMAIN fn.static_context THEN PyNum(fn.static_context[n])
        ELSE AllowedValue(n)]

\* C10 as claimed: a call of the payoff function evaluates the expression
\* with every declared variable equal to the argument and the context's names
\* equal to their constants.
C10_EveryDeclaredNameIsArgument ==
    scalls > 0 => sret = PyFloat(Eval(sfn.tree, ClaimedScope(sfn, sx)))

\* the scope of the code: a whitelisted name is its math value, another name
\* of the context is its constant, any other declared variable is the argument
PrecedenceScope(fn, x) ==
    [n \in fn.payoff_variables \cup DOMAIN fn.static_context \cup AllowedNames |->
        IF n \in AllowedNames THEN AllowedValue(n)
        ELSE IF n \in DOMAIN fn.static_context THEN PyNum(fn.static_context[n])
        ELSE PyNum(x)]

\* C10, amended: a call of the payoff function evaluates the expression with
\* every declared variable that is neither a key of the context nor a
\* whitelisted name equal to the argument, every name of the context that is
\* no whitelisted name equal to its constant, and every whitelisted name equal
\* to its math value; min(max(S_T-100,0),20) with S_T declared is 20 at 150.
C10_DeclaredNamesAreArgument ==
    scalls > 0
        => /\ sret = PyFloat(Eval(sfn.tree, PrecedenceScope(sfn, sx)))
           /\ \A v \in sfn.payoff_variables \ (DOMAIN sfn.static_context \cup AllowedNames) :
                sfn.tree = Expression(Name(v)) => sret = PyNum(sx)
           /\ \A v \in DOMAIN sfn.static_context \ AllowedNames :
                sfn.tree = Expression(Name(v)) => sret = PyNum(sfn.static_context[v])
           /\ (sfn.tree = Expression(CappedCall) /\ sx = 150 * SCALE)
                => sret = PyNum(20 * SCALE)

\* C10 witness: the payoff function of min(max(S_T-100,0),20) with S_T
\* declared among the aliases, called at 150, returned 20
C10_Witness ==
    /\ scalls > 0
    /\ sfn.tree = Expression(CappedCall)
    /\ "S_T" \in sfn.payoff_variables
    /\ sx = 150 * SCALE
    /\ sret = PyNum(20 * SCALE)

\* ------------------------------------------------------------------------
\* properties of monte_carlo_price
\* ------------------------------------------------------------------------

\* an invocation whose arguments fail a check has raised the ValueError of the
\* first failing check, with no generator, no variate and no call of payoff
McRejectedEagerly ==
    (mpc # "idle" /\ McValidate(margs) # NoError)
        => /\ mpc = "raised"
           /\ merr = McValidate(margs)
           /\ merr.exc = "ValueError"
           /\ mrng = NoRng
           /\ mdraws = 0
           /\ mcalls = 0

\* C7: monte_carlo_price raises the ValueError of its parameter checks
\* whenever simulations <= 0, maturity <= 0 or volatility < 0, before the
\* generator exists, before a variate is drawn and before payoff is called;
\* and an invocation that raised inside the loop over the paths raised a
\* fault of the payoff function.
C7_OnlyPayoffFaultsInLoop ==
    /\ McRejectedEagerly
    /\ (mpc = "raised" /\ mdraws > 0) => (IsExc(mlast) /\ merr.about = "payoff")

\* C8: once the payoff function has raised on a sampled terminal price the
\* invocation has raised that exception, at that path: the failing path is
\* not counted as done, nothing was drawn after it, and no price is returned.
C8_PayoffFaultAborts ==
    IsExc(mlast)
        => /\ mpc = "raised"
           /\ merr = Raise(mlast.name, "payoff")
           /\ mresult = NoResult
           /\ mcalls = mi + 1
           /\ mdraws = mcalls
           /\ mi < margs.simulations

\* C8 witness: the payoff function raised after a path that succeeded and
\* before the last path of the invocation
C8_Witness ==
    /\ IsExc(mlast)
    /\ mpc = "raised"
    /\ mi >= 1
    /\ mi + 1 < margs.simulations

\* C9: all the invocations of the observed seeded arguments that returned,
\* returned the same result, whatever invocations ran before or between them.
C9_SameSeedSameResult ==
    \A i \in 1..Len(history), j \in 1..Len(history) :
        history[i].result = history[j].result

\* C9 witness: the observed arguments returned a positive price twice, with
\* another invocation before the first and another between the two
C9_Witness ==
    /\ Len(history) >= 2
    /\ history[1].n >= 2
    /\ history[2].n >= history[1].n + 2
    /\ history[1].result > 0

====
